---- MODULE Spec2Model ----
(***************************************************************************)
(* Model of Meta_Data.py: the EXIF metadata extractor.  The module models  *)
(* convert_decimal_degrees, detect_gps_location, analyze_security_risk,    *)
(* sanitize_metadata, process_image and process_directory.                 *)
(*                                                                         *)
(* Python values are modelled as follows.                                  *)
(*  - A dict is a sequence of <<key, value>> pairs with distinct keys, in  *)
(*    insertion order (the iteration order of a Python dict).              *)
(*  - A scalar that may be numeric or not is a record [t, n]: Num(n) is a  *)
(*    number, StrV a non-numeric string, NoneV the value None.             *)
(*  - A decimal coordinate is a number counted in millionths of a degree   *)
(*    (round(x, 6) keeps exactly six decimals).                            *)
(*  - A resolved tag name is Name(s) for a string and RawId(n) for a tag   *)
(*    identifier the tag table does not know (TAGS.get(tag_id, tag_id)).   *)
(*  - A raised exception is the name of its class; "" is "none raised".    *)
(***************************************************************************)
EXTENDS Integers, Sequences, FiniteSets, TLC

VARIABLES
    pc,                 \* the operation about to run, then "done"
    args,               \* the arguments of a single function call
    ret,                \* what the call returned
    files,              \* process_directory: the files os.walk yields, in order
    path_exists,        \* process_directory: os.path.exists(path)
    sanitize,           \* process_directory: the sanitize flag
    risk_analysis,      \* process_directory: the risk_analysis flag
    idx,                \* process_directory: number of files the loop has visited
    all_metadata,       \* process_directory: accumulated records
    all_gps,            \* process_directory: file name -> (lat, lon), as pairs
    security_reports,   \* process_directory: accumulated risk reports
    processed_count,    \* process_directory: images handed to process_image
    raised              \* process_directory: exception that escaped, or ""

vars == <<pc, args, ret, files, path_exists, sanitize, risk_analysis, idx,
          all_metadata, all_gps, security_reports, processed_count, raised>>

dirVars == <<files, path_exists, sanitize, risk_analysis, idx, all_metadata,
             all_gps, security_reports, processed_count, raised>>

(***************************************************************************)
(* Python values                                                           *)
(***************************************************************************)
Num(n) == [t |-> "num", n |-> n]
StrV == [t |-> "str", n |-> 0]
NoneV == [t |-> "none", n |-> 0]

IsNum(v) == v.t = "num"

\* truthiness of a number or None: None and 0.0 (also -0.0) are falsy
Truthy(v) == IsNum(v) /\ v.n # 0

Abs(x) == IF x < 0 THEN -x ELSE x

\* the directory variables while a single function is being checked
DirIdle ==
    /\ files = <<>>
    /\ path_exists = TRUE
    /\ sanitize = FALSE
    /\ risk_analysis = FALSE
    /\ idx = 0
    /\ all_metadata = <<>>
    /\ all_gps = <<>>
    /\ security_reports = <<>>
    /\ processed_count = 0
    /\ raised = ""

(***************************************************************************)
(* convert_decimal_degrees                                                 *)
(***************************************************************************)
\* bounds of the inputs drawn for convert_decimal_degrees
MaxDeg == 11

\* round(x, 6): six decimals, so a result is a whole number of millionths
Scale == 1000000

SecondsPerDegree == 3600

SecondsPerMinute == 60

\* round half to even of num / den, for num >= 0, den > 0 (Python's round)
RoundHalfEven(num, den) ==
    LET q == num \div den
        r == num % den
    IN  IF 2 * r < den THEN q
        ELSE IF 2 * r > den THEN q + 1
        ELSE q + (q % 2)

\* millionths of a degree per second of arc, Scale / 3600, in lowest terms
\* (2500 / 9), which keeps the products within TLC's integers
MicroNum == Scale \div 400

MicroDen == SecondsPerDegree \div 400

\* round(x, 6) for x = secs / 3600 degrees, in millionths of a degree
Round6(secs) ==
    IF secs >= 0 THEN RoundHalfEven(secs * MicroNum, MicroDen)
    ELSE -RoundHalfEven((-secs) * MicroNum, MicroDen)

MutNegateSouthOnly(degree, minutes, seconds, direction) ==
    IF ~(IsNum(degree) /\ IsNum(minutes) /\ IsNum(seconds)) THEN NoneV
    ELSE LET decimal_degrees ==
                 degree.n * SecondsPerDegree + minutes.n * SecondsPerMinute + seconds.n
         IN  Num(Round6(IF direction \in {"S"}
                        THEN decimal_degrees * (-1) ELSE decimal_degrees))

\* degree + minutes / 60 + seconds / 3600, negated for S and W, rounded;
\* a non-numeric operand raises TypeError, which the function turns into None
convert_decimal_degrees(degree, minutes, seconds, direction) ==
    IF ~(IsNum(degree) /\ IsNum(minutes) /\ IsNum(seconds)) THEN NoneV
    ELSE LET decimal_degrees ==
                 degree.n * SecondsPerDegree + minutes.n * SecondsPerMinute + seconds.n
         IN  Num(Round6(IF direction \in {"S", "W"}
                        THEN decimal_degrees * (-1) ELSE decimal_degrees))

Directions == {"N", "S", "E", "W", "X"}

SecondsSample == {0, 1, 29, 30, 59}

ConvertArgs ==
    [degree : {Num(n) : n \in 0..MaxDeg} \cup {StrV},
     minutes : {Num(n) : n \in 0..59} \cup {NoneV},
     seconds : {Num(n) : n \in SecondsSample} \cup {StrV},
     direction : Directions]

InitConvert ==
    /\ pc = "convert_decimal_degrees"
    /\ args \in ConvertArgs
    /\ ret = NoneV
    /\ DirIdle

CallConvert ==
    /\ pc = "convert_decimal_degrees"
    /\ ret' = convert_decimal_degrees(args.degree, args.minutes, args.seconds,
                                      args.direction)
    /\ pc' = "done"
    /\ UNCHANGED <<args, dirVars>>

NextConvert == CallConvert

SpecConvert == InitConvert /\ [][NextConvert]_vars

ConvertDone == pc = "done"

ValidDMS == IsNum(args.degree) /\ IsNum(args.minutes) /\ IsNum(args.seconds)

\* the exact magnitude, in seconds of arc
TotalSeconds ==
    args.degree.n * SecondsPerDegree + args.minutes.n * SecondsPerMinute + args.seconds.n

\* u is the whole number of millionths nearest to TotalSeconds / 3600
NearestMicro(u) == 2 * Abs(u * 9 - TotalSeconds * 2500) <= 9

\* C10: for degree >= 0, minutes and seconds in [0,60), convert_decimal_degrees
\* returns degree + minutes/60 + seconds/3600 rounded to 6 decimals and
\* non-negative for N and E, exactly the negation of that magnitude for S and
\* W, the unnegated magnitude for any other direction; 10,30,0,N gives 10.5
\* and 10,30,0,S gives -10.5.
C10_ConvertSignedMagnitude ==
    (ConvertDone /\ ValidDMS) =>
        /\ IsNum(ret)
        /\ args.direction \in {"S", "W"} => (ret.n <= 0 /\ NearestMicro(-ret.n))
        /\ args.direction \notin {"S", "W"} => (ret.n >= 0 /\ NearestMicro(ret.n))
        /\ (args.degree.n = 10 /\ args.minutes.n = 30 /\ args.seconds.n = 0) =>
              /\ args.direction = "N" => ret.n = 10500000
              /\ args.direction = "S" => ret.n = -10500000

C10_Witness ==
    /\ ConvertDone /\ ValidDMS
    /\ args.direction = "W"
    /\ args.degree.n = 10 /\ args.minutes.n = 59 /\ args.seconds.n = 59
    /\ ret.n = -10999722

(***************************************************************************)
(* detect_gps_location                                                     *)
(*                                                                         *)
(* A tag value is a record [isdict, text, gps]: a scalar has its text, the *)
(* value of GPSInfo has isdict and its sub-tag map gps, a function from    *)
(* the sub-tag identifiers present to their values.  A hemisphere ref is a *)
(* string, a latitude or longitude a triple of scalars.                    *)
(***************************************************************************)
Scalar(s) == [isdict |-> FALSE, text |-> s, gps |-> <<>>]

Dict(g) == [isdict |-> TRUE, text |-> "", gps |-> g]

\* largest GPS sub-tag identifier drawn (1..4 are the ones the code reads)
MaxSubTag == 5

MutLatWithoutLonRef(gps_info) ==
    IF ~gps_info.isdict THEN NoneV
    ELSE LET g == gps_info.gps
             has(k) == k \in DOMAIN g
         IN  IF has(1) /\ has(2) /\ has(4)
             THEN [lat |-> g[2], lat_ref |-> g[1], lon |-> g[4],
                   lon_ref |-> IF has(3) THEN g[3] ELSE g[1]]
             ELSE NoneV

\* lat and lat_ref are taken when 1, 2 and 3 are present, lon and lon_ref when
\* 4 and 3 are; the block is returned only when all four keys were set.  A
\* value that is no container makes "1 in gps_info" raise TypeError, caught.
detect_gps_location(gps_info) ==
    IF ~gps_info.isdict THEN NoneV
    ELSE LET g == gps_info.gps
             has(k) == k \in DOMAIN g
             hasLat == has(1) /\ has(2) /\ has(3)
             hasLon == has(4) /\ has(3)
         IN  IF hasLat /\ hasLon
             THEN [lat |-> g[2], lat_ref |-> g[1], lon |-> g[4], lon_ref |-> g[3]]
             ELSE NoneV

LatRefs == {"N", "S"}

LonRefs == {"E", "W", "X"}

\* degree, minute, second triples: valid ones, the origin, and non-numeric ones
Triples == {<<Num(10), Num(30), Num(0)>>, <<Num(0), Num(0), Num(0)>>,
            <<StrV, Num(0), Num(0)>>, <<Num(1), NoneV, Num(0)>>}

GpsMap(D, r1, t2, r3, t4) ==
    [k \in D |-> CASE k = 1 -> r1
                   [] k = 2 -> t2
                   [] k = 3 -> r3
                   [] k = 4 -> t4
                   [] OTHER -> "0"]

GpsMaps(max) ==
    {GpsMap(D, r1, t2, r3, t4) :
        D \in SUBSET (1..max), r1 \in LatRefs, t2 \in Triples,
        r3 \in LonRefs, t4 \in Triples}

InitGps ==
    /\ pc = "detect_gps_location"
    /\ args \in {Dict(g) : g \in GpsMaps(MaxSubTag)} \cup {Scalar("34853")}
    /\ ret = NoneV
    /\ DirIdle

CallGps ==
    /\ pc = "detect_gps_location"
    /\ ret' = detect_gps_location(args)
    /\ pc' = "done"
    /\ UNCHANGED <<args, dirVars>>

NextGps == CallGps

SpecGps == InitGps /\ [][NextGps]_vars

GpsComplete == args.isdict /\ {1, 2, 3, 4} \subseteq DOMAIN args.gps

\* C5: detect_gps_location returns None when any of the sub-identifiers 1, 2,
\* 3, 4 is missing; when all four are present it returns the block lat =
\* value of 2, lat_ref = value of 1, lon = value of 4, lon_ref = value of 3,
\* the values unconverted; it never raises (every call returns).
C5_GpsBlockAllOrNone ==
    pc = "done" =>
        /\ ~GpsComplete => ret = NoneV
        /\ GpsComplete =>
              /\ DOMAIN ret = {"lat", "lat_ref", "lon", "lon_ref"}
              /\ ret.lat = args.gps[2]
              /\ ret.lat_ref = args.gps[1]
              /\ ret.lon = args.gps[4]
              /\ ret.lon_ref = args.gps[3]

C5_Witness ==
    /\ pc = "done"
    /\ GpsComplete
    /\ ret # NoneV
    /\ ret.lat = <<StrV, Num(0), Num(0)>>
    /\ ret.lon_ref = "W"

(***************************************************************************)
(* The tag-name table and tag maps                                         *)
(***************************************************************************)
Name(s) == [s |-> s]

RawId(n) == [id |-> n]

IsName(k) == "s" \in DOMAIN k

\* the entries of PIL.ExifTags.TAGS for the identifiers the model draws
TAGS ==
    (256 :> "ImageWidth") @@ (257 :> "ImageLength") @@ (271 :> "Make") @@
    (272 :> "Model") @@ (305 :> "Software") @@ (306 :> "DateTime") @@
    (315 :> "Artist") @@ (33432 :> "Copyright") @@ (34853 :> "GPSInfo")

\* TAGS.get(tag_id, tag_id)
TAGS_get(tag_id) ==
    IF tag_id \in DOMAIN TAGS THEN Name(TAGS[tag_id]) ELSE RawId(tag_id)

\* the tag identifier of GPSInfo
GPSInfoId == 34853

\* tag identifiers TAGS does not know
UnknownIds == {65000}

\* longest tag map drawn
MaxTags == 3

Range(f) == {f[i] : i \in DOMAIN f}

DistinctKeys(m) == \A i, j \in DOMAIN m : m[i][1] = m[j][1] => i = j

Keys(m) == {m[i][1] : i \in DOMAIN m}

\* m[k] for a key the map holds
Lookup(m, k) == LET i == CHOOSE j \in DOMAIN m : m[j][1] = k IN m[i][2]

\* GPSInfo blocks drawn for a tag map: complete and valid, complete with a
\* latitude of exactly zero, complete with a non-numeric string or a None
\* among the degree, minute, second values, and partial
GpsSample ==
    {GpsMap({1, 2, 3, 4}, "N", <<Num(10), Num(30), Num(0)>>, "W", <<Num(1), Num(0), Num(30)>>),
     GpsMap({1, 2, 3, 4}, "S", <<Num(1), Num(1), Num(1)>>, "E", <<Num(10), Num(30), Num(0)>>),
     GpsMap({1, 2, 3, 4}, "N", <<Num(0), Num(0), Num(0)>>, "E", <<Num(10), Num(30), Num(0)>>),
     GpsMap({1, 2, 3, 4}, "N", <<StrV, Num(0), Num(0)>>, "E", <<Num(10), Num(30), Num(0)>>),
     GpsMap({1, 2, 3, 4}, "N", <<Num(10), Num(30), Num(0)>>, "E", <<Num(1), NoneV, Num(0)>>),
     GpsMap({1, 2}, "S", <<Num(1), Num(1), Num(1)>>, "E", <<>>)}

ValuesOf(tag_id) ==
    IF tag_id = GPSInfoId THEN {Dict(g) : g \in GpsSample}
    ELSE {Scalar("a"), Scalar("b")}

\* the dicts with at most max entries over the identifiers ids
TagMaps(ids, max) ==
    LET Entries == {<<id, v>> : id \in ids, v \in UNION {ValuesOf(i) : i \in ids}}
        Good(e) == e[2] \in ValuesOf(e[1])
    IN  {m \in UNION {[1..n -> {e \in Entries : Good(e)}] : n \in 0..max} :
            DistinctKeys(m)}

(***************************************************************************)
(* sanitize_metadata                                                       *)
(***************************************************************************)
MutSafeTagsNoSoftware == <<"DateTime", "ImageWidth", "ImageLength", "Make", "Model">>

SAFE_TAGS == <<"DateTime", "ImageWidth", "ImageLength", "Make", "Model", "Software">>

\* x in a Python list of strings; a key that is no string equals none of them
InList(k, list) == IsName(k) /\ \E i \in DOMAIN list : list[i] = k.s

\* del d[k]
DictDel(m, k) == SelectSeq(m, LAMBDA e : e[1] # k)

MutSanitizeDenyList(exif_data) ==
    SelectSeq(exif_data, LAMBDA e : ~InList(TAGS_get(e[1]), <<"Artist", "Copyright">>))

\* exif_data is image.getexif() or {}: copy the entries whose resolved name is
\* in SAFE_TAGS, then delete GPSInfo; exif_data is only read
sanitize_metadata(exif_data) ==
    LET new_exif == SelectSeq(exif_data, LAMBDA e : InList(TAGS_get(e[1]), SAFE_TAGS))
    IN  IF GPSInfoId \in Keys(new_exif) THEN DictDel(new_exif, GPSInfoId) ELSE new_exif

SanitizeIds == DOMAIN TAGS \cup UnknownIds

InitSanitize ==
    /\ pc = "sanitize_metadata"
    /\ args \in TagMaps(SanitizeIds, MaxTags)
    /\ ret = <<>>
    /\ DirIdle

CallSanitize ==
    /\ pc = "sanitize_metadata"
    /\ ret' = sanitize_metadata(args)
    /\ pc' = "done"
    /\ UNCHANGED <<args, dirVars>>

NextSanitize == CallSanitize

SpecSanitize == InitSanitize /\ [][NextSanitize]_vars

\* C1: whatever tag identifiers the raw map holds, GPSInfo (34853) among
\* them, the map sanitize_metadata returns never has the key 34853, so no GPS
\* data (no GPS sub-tag map) is in it.
C1_SanitizedHasNoGps ==
    pc = "done" =>
        /\ 34853 \notin Keys(ret)
        /\ \A i \in DOMAIN ret : ~ret[i][2].isdict

C1_Witness ==
    /\ pc = "done"
    /\ 34853 \in Keys(args)
    /\ 306 \in Keys(args)
    /\ Keys(ret) = {306}

SafeNames == {"DateTime", "ImageWidth", "ImageLength", "Make", "Model", "Software"}

SafeEntry(e) == e[1] \in DOMAIN TAGS /\ TAGS[e[1]] \in SafeNames

\* C2: sanitize_metadata returns a map that holds an entry (tag_id, value) iff
\* the raw map holds it and the tag's resolved name is one of DateTime,
\* ImageWidth, ImageLength, Make, Model, Software; each retained value is the
\* source value, and the raw map itself is left unchanged by the call.
C2_SanitizedIsSafeSubset ==
    /\ [](pc = "done" =>
            /\ Range(ret) = {e \in Range(args) : SafeEntry(e)}
            /\ DistinctKeys(ret)
            /\ \A i \in DOMAIN ret : ret[i][2] = Lookup(args, ret[i][1]))
    /\ [][args' = args]_vars

C2_Witness ==
    /\ pc = "done"
    /\ Keys(args) = {305, 315, 34853}
    /\ ret = <<<<305, Scalar("b")>>>>

(***************************************************************************)
(* analyze_security_risk                                                   *)
(***************************************************************************)
RISK_KEYWORDS == <<"GPS", "Location", "Position", "Address", "Copyright", "Author", "Artist">>

HIGH_RISK_TAGS == <<"GPSLatitude", "GPSLongitude", "Copyright", "Author", "Artist">>

\* kw in tag, for two strings: kw is a substring of tag
Contains(tag, kw) ==
    \E i \in 1..Len(tag) :
        i + Len(kw) - 1 <= Len(tag) /\ SubSeq(tag, i, i + Len(kw) - 1) = kw

\* any(kw in tag for kw in RISK_KEYWORDS), for a string tag
AnyKeyword(tag) == \E i \in DOMAIN RISK_KEYWORDS : Contains(tag.s, RISK_KEYWORDS[i])

RecHigh == "Eliminar metadatos GPS antes de compartir esta imagen"

RecMedium == "Revisar y eliminar metadatos personales o sensibles"

RecNone == "No se detectaron riesgos de seguridad significativos"

\* the 'risk' texts of the items (accents dropped)
RiskHigh == "ALTO: Informacion de ubicacion o propiedad expuesta"

RiskMedium == "MEDIO: Informacion potencialmente sensible"

RiskItem(e, risk) == [tag |-> e[1], value |-> e[2], risk |-> risk]

RiskItems(entries, risk) == [i \in DOMAIN entries |-> RiskItem(entries[i], risk)]

MutRiskNoElif(metadata, filename) ==
    LET high == SelectSeq(metadata, LAMBDA e : InList(e[1], HIGH_RISK_TAGS))
        medium == SelectSeq(metadata, LAMBDA e : AnyKeyword(e[1]))
    IN  [exc |-> "",
         filename |-> filename,
         high_risk_items |-> RiskItems(high, RiskHigh),
         medium_risk_items |-> RiskItems(medium, RiskMedium),
         recommendations |->
             (IF high # <<>> THEN <<RecHigh>> ELSE <<>>) \o
             (IF medium # <<>> THEN <<RecMedium>> ELSE <<>>) \o
             (IF high = <<>> /\ medium = <<>> THEN <<RecNone>> ELSE <<>>)]

MutRiskNoneOnlyWhenNoHigh(metadata, filename) ==
    LET isHigh(e) == InList(e[1], HIGH_RISK_TAGS)
        high == SelectSeq(metadata, isHigh)
        medium == SelectSeq(metadata, LAMBDA e : ~isHigh(e) /\ AnyKeyword(e[1]))
    IN  [exc |-> "",
         filename |-> filename,
         high_risk_items |-> RiskItems(high, RiskHigh),
         medium_risk_items |-> RiskItems(medium, RiskMedium),
         recommendations |->
             (IF high # <<>> THEN <<RecHigh>> ELSE <<>>) \o
             (IF medium # <<>> THEN <<RecMedium>> ELSE <<>>) \o
             (IF high = <<>> THEN <<RecNone>> ELSE <<>>)]

\* One pass over metadata.items(): a tag in HIGH_RISK_TAGS is appended to
\* high_risk_items, else a tag holding a keyword to medium_risk_items.  For a
\* key that is not a string and not in HIGH_RISK_TAGS, "kw in tag" raises
\* TypeError, which nothing in the function catches.
analyze_security_risk(metadata, filename) ==
    LET isHigh(e) == InList(e[1], HIGH_RISK_TAGS)
        fails(e) == ~isHigh(e) /\ ~IsName(e[1])
        high == SelectSeq(metadata, isHigh)
        medium == SelectSeq(metadata, LAMBDA e : ~isHigh(e) /\ AnyKeyword(e[1]))
    IN  IF \E i \in DOMAIN metadata : fails(metadata[i])
        THEN [exc |-> "TypeError"]
        ELSE [exc |-> "",
              filename |-> filename,
              high_risk_items |-> RiskItems(high, RiskHigh),
              medium_risk_items |-> RiskItems(medium, RiskMedium),
              recommendations |->
                  (IF high # <<>> THEN <<RecHigh>> ELSE <<>>) \o
                  (IF medium # <<>> THEN <<RecMedium>> ELSE <<>>) \o
                  (IF high = <<>> /\ medium = <<>> THEN <<RecNone>> ELSE <<>>)]

\* tag names drawn for the classifier: exact high-risk names, names that only
\* hold a keyword, and names that hold none (the match is case-sensitive)
RiskNames == {"GPSLatitude", "Author", "Copyright", "GPSInfo", "GPSLatitudeRef",
              "XPAuthor", "SubjectLocation", "Make", "gps"}

\* the named tag maps with at most max entries
NamedMaps(max) ==
    LET Entries == {<<Name(n), Scalar(v)>> : n \in RiskNames, v \in {"a", "b"}}
    IN  {m \in UNION {[1..n -> Entries] : n \in 0..max} : DistinctKeys(m)}

InitRisk ==
    /\ pc = "analyze_security_risk"
    /\ args \in NamedMaps(MaxTags)
    /\ ret = <<>>
    /\ DirIdle

CallRisk ==
    /\ pc = "analyze_security_risk"
    /\ ret' = analyze_security_risk(args, "a.jpg")
    /\ pc' = "done"
    /\ UNCHANGED <<args, dirVars>>

NextRisk == CallRisk

SpecRisk == InitRisk /\ [][NextRisk]_vars

HighNames == {"GPSLatitude", "GPSLongitude", "Copyright", "Author", "Artist"}

MediumKeywords == {"GPS", "Location", "Position", "Address", "Copyright", "Author", "Artist"}

\* the number of items of a risk list that are about tag k
Occurrences(items, k) == Cardinality({i \in DOMAIN items : items[i].tag = k})

\* C3: each tag of the named map is in at most one of high_risk_items and
\* medium_risk_items, at most once: in high_risk_items iff its name is
\* exactly one of GPSLatitude, GPSLongitude, Copyright, Author, Artist;
\* otherwise in medium_risk_items iff its name contains one of the keywords
\* GPS, Location, Position, Address, Copyright, Author, Artist; otherwise in
\* neither; and the lists hold nothing but tags of the map.
C3_RiskTiersExclusive ==
    pc = "done" =>
        /\ ret.exc = ""
        /\ \A i \in DOMAIN args :
              LET k == args[i][1]
                  inHigh == k.s \in HighNames
                  inMedium == ~inHigh /\ \E kw \in MediumKeywords : Contains(k.s, kw)
              IN  /\ Occurrences(ret.high_risk_items, k) = (IF inHigh THEN 1 ELSE 0)
                  /\ Occurrences(ret.medium_risk_items, k) = (IF inMedium THEN 1 ELSE 0)
        /\ \A i \in DOMAIN ret.high_risk_items : ret.high_risk_items[i].tag \in Keys(args)
        /\ \A i \in DOMAIN ret.medium_risk_items : ret.medium_risk_items[i].tag \in Keys(args)

C3_Witness ==
    /\ pc = "done"
    /\ Keys(args) = {Name("GPSLatitude"), Name("Make"), Name("GPSInfo")}
    /\ Len(ret.high_risk_items) = 1
    /\ ret.high_risk_items[1].tag = Name("GPSLatitude")
    /\ Len(ret.medium_risk_items) = 1
    /\ ret.medium_risk_items[1].tag = Name("GPSInfo")

\* C4: the recommendations list is never empty and is, in this order: the
\* GPS-removal advisory iff high_risk_items is non-empty, the review advisory
\* iff medium_risk_items is non-empty, the no-significant-risk message iff
\* both lists are empty (then the only recommendation, as for an empty map).
C4_RecommendationsByTier ==
    pc = "done" =>
        LET h == ret.high_risk_items # <<>>
            m == ret.medium_risk_items # <<>>
        IN  /\ ret.recommendations # <<>>
            /\ ret.recommendations =
                  (IF h THEN <<"Eliminar metadatos GPS antes de compartir esta imagen">> ELSE <<>>) \o
                  (IF m THEN <<"Revisar y eliminar metadatos personales o sensibles">> ELSE <<>>) \o
                  (IF ~h /\ ~m THEN <<"No se detectaron riesgos de seguridad significativos">> ELSE <<>>)
            /\ args = <<>> => ret.recommendations =
                  <<"No se detectaron riesgos de seguridad significativos">>

C4_Witness ==
    /\ pc = "done"
    /\ Keys(args) = {Name("Author"), Name("XPAuthor")}
    /\ Len(ret.recommendations) = 2

(***************************************************************************)
(* process_image                                                           *)
(*                                                                         *)
(* A file is [name, is_image, decodable, exif]: is_image says its name     *)
(* ends in .jpg, .jpeg or .png, decodable that Image.open and _getexif     *)
(* succeed (they raise OSError otherwise), exif is the tag map they yield. *)
(* The result is [exc, metadata, gps, security_report, saved]: exc names   *)
(* an exception that escaped process_image, saved says the file was        *)
(* rewritten with the sanitized tag map.                                   *)
(***************************************************************************)
Record(filename, tag, value) == [filename |-> filename, tag |-> tag, value |-> value]

\* str(value)
Str(value) == [str |-> value]

\* f"{dec_lat}, {dec_lon}" and f"https://maps.google.com/?q={dec_lat},{dec_lon}"
Format(template, dec_lat, dec_lon) == [fmt |-> template, lat |-> dec_lat.n, lon |-> dec_lon.n]

\* the Error record of the except clause; its value is str(e)
ErrorRecord(filename, e) == Record(filename, Name("Error"), [err |-> e])

\* the exception float(v) raises, "" when it returns
FloatExc(v) ==
    CASE v.t = "num" -> ""
      [] v.t = "str" -> "ValueError"
      [] OTHER -> "TypeError"

\* the first exception among float(v) for the values of the sequence, in order
FirstExc(vs) ==
    IF \A i \in DOMAIN vs : FloatExc(vs[i]) = "" THEN ""
    ELSE FloatExc(vs[CHOOSE i \in DOMAIN vs :
                        /\ FloatExc(vs[i]) # ""
                        /\ \A j \in 1..(i - 1) : FloatExc(vs[j]) = ""])

\* bytes(new_exif) iterates the keys and raises ValueError for one outside 0..255
BytesRaises(new_exif) == \E k \in Keys(new_exif) : k < 0 \/ k > 255

\* {TAGS.get(tag_id, tag_id): value for tag_id, value in exif_data.items()}:
\* a later entry with the same resolved name replaces the value in place
RECURSIVE NamedTagMap(_)
NamedTagMap(exif_data) ==
    IF exif_data = <<>> THEN <<>>
    ELSE LET n == Len(exif_data)
             init == NamedTagMap(SubSeq(exif_data, 1, n - 1))
             k == TAGS_get(exif_data[n][1])
             v == exif_data[n][2]
         IN  IF k \in Keys(init)
             THEN [i \in DOMAIN init |-> IF init[i][1] = k THEN <<k, v>> ELSE init[i]]
             ELSE Append(init, <<k, v>>)

\* one iteration of "for tag_id, value in exif_data.items()", from the state
\* st = [exc, results, gps_coords] of the loop so far
TagStep(filename, entry, st) ==
    LET tag_name == TAGS_get(entry[1])
        value == entry[2]
        generic == Record(filename, tag_name, Str(value))
        gps_data == detect_gps_location(value)
    IN  IF tag_name # Name("GPSInfo") \/ gps_data = NoneV
        THEN [st EXCEPT !.results = Append(@, generic)]
        ELSE LET e == FirstExc(gps_data.lat \o gps_data.lon) IN
             IF e # "" THEN [st EXCEPT !.exc = e]
             ELSE LET dec_lat == convert_decimal_degrees(
                                     gps_data.lat[1], gps_data.lat[2], gps_data.lat[3],
                                     gps_data.lat_ref)
                      dec_lon == convert_decimal_degrees(
                                     gps_data.lon[1], gps_data.lon[2], gps_data.lon[3],
                                     gps_data.lon_ref)
                  IN  IF Truthy(dec_lat) /\ Truthy(dec_lon)
                      THEN [exc |-> "",
                            gps_coords |-> [lat |-> dec_lat.n, lon |-> dec_lon.n],
                            results |-> st.results \o
                                <<Record(filename, Name("GPSDecimal"),
                                         Format("{}, {}", dec_lat, dec_lon)),
                                  Record(filename, Name("GoogleMaps"),
                                         Format("https://maps.google.com/?q={},{}",
                                                dec_lat, dec_lon)),
                                  generic>>]
                      ELSE [st EXCEPT !.results = Append(@, generic)]

\* the loop over exif_data.items(); an exception ends it
RECURSIVE TagLoop(_, _, _, _)
TagLoop(filename, exif_data, k, st) ==
    IF k > Len(exif_data) \/ st.exc # "" THEN st
    ELSE TagLoop(filename, exif_data, k + 1, TagStep(filename, exif_data[k], st))

MutExceptValueErrorOnly(filename, e, results, gps_coords) ==
    IF e \in {"ValueError"}
    THEN [exc |-> "", metadata |-> Append(results, ErrorRecord(filename, e)),
          gps |-> gps_coords, security_report |-> NoneV, saved |-> FALSE]
    ELSE [exc |-> e, metadata |-> results, gps |-> gps_coords,
          security_report |-> NoneV, saved |-> FALSE]

\* except (IOError, OSError, ValueError): one more record, and the function
\* returns what it had; any other exception leaves process_image
ExceptClause(filename, e, results, gps_coords) ==
    IF e \in {"OSError", "ValueError"}
    THEN [exc |-> "", metadata |-> Append(results, ErrorRecord(filename, e)),
          gps |-> gps_coords, security_report |-> NoneV, saved |-> FALSE]
    ELSE [exc |-> e, metadata |-> results, gps |-> gps_coords,
          security_report |-> NoneV, saved |-> FALSE]

\* img.getexif() and img._getexif() are both taken to yield file.exif.  With
\* sanitize set, bytes(new_exif) raises ValueError unless every key is below
\* 256, and the image is saved with the sanitized map otherwise.
process_image(file, sanitize_, risk_analysis_) ==
    LET filename == file.name
        new_exif == sanitize_metadata(file.exif)
    IN  IF ~file.decodable THEN ExceptClause(filename, "OSError", <<>>, NoneV)
        ELSE IF sanitize_ /\ BytesRaises(new_exif)
        THEN ExceptClause(filename, "ValueError", <<>>, NoneV)
        ELSE LET exif_data == IF sanitize_ THEN new_exif ELSE file.exif
                 st == TagLoop(filename, exif_data, 1,
                               [exc |-> "", results |-> <<>>, gps_coords |-> NoneV])
                 report == analyze_security_risk(NamedTagMap(exif_data), filename)
             IN  IF st.exc # ""
                 THEN ExceptClause(filename, st.exc, st.results, st.gps_coords)
                 ELSE IF risk_analysis_ /\ report.exc # ""
                 THEN ExceptClause(filename, report.exc, st.results, st.gps_coords)
                 ELSE [exc |-> "", metadata |-> st.results, gps |-> st.gps_coords,
                       security_report |-> IF risk_analysis_ THEN report ELSE NoneV,
                       saved |-> sanitize_]

\* tag identifiers drawn for an image: Make, Artist, GPSInfo and an unknown one
ImageIds == {271, 315, GPSInfoId} \cup UnknownIds

Files(names, max) ==
    [name : names, is_image : {TRUE}, decodable : BOOLEAN,
     exif : TagMaps(ImageIds, max)]

InitImage ==
    /\ pc = "process_image"
    /\ args \in [file : Files({"a.jpg"}, MaxTags), sanitize : BOOLEAN,
                 risk_analysis : BOOLEAN]
    /\ ret = <<>>
    /\ DirIdle

CallImage ==
    /\ pc = "process_image"
    /\ ret' = process_image(args.file, args.sanitize, args.risk_analysis)
    /\ pc' = "done"
    /\ UNCHANGED <<args, dirVars>>

NextImage == CallImage

SpecImage == InitImage /\ [][NextImage]_vars

ImageReturned == pc = "done" /\ args.file.decodable

TheGps == Lookup(args.file.exif, GPSInfoId).gps

HasCompleteGps ==
    /\ GPSInfoId \in Keys(args.file.exif)
    /\ {1, 2, 3, 4} \subseteq DOMAIN TheGps

AllNumeric == \A i \in 1..3 : IsNum(TheGps[2][i]) /\ IsNum(TheGps[4][i])

TagsOf(metadata) == [i \in DOMAIN metadata |-> metadata[i].tag]

CountTag(metadata, tag) == Cardinality({i \in DOMAIN metadata : metadata[i].tag = tag})

\* C6: for a decodable image whose GPSInfo block has all four sub-identifiers,
\* numeric degree, minute and second values and hemisphere refs, process_image
\* emits exactly 3 GPS-related records (GPSDecimal, GoogleMaps, then the raw
\* GPSInfo record) plus one record for every other tag, and returns the
\* converted (lat, lon) pair as gps.  Stated for sanitize and risk_analysis
\* both unset.
C6_ThreeGpsRecords ==
    (/\ ImageReturned /\ ~args.sanitize /\ ~args.risk_analysis
     /\ HasCompleteGps /\ AllNumeric
     /\ TheGps[1] \in {"N", "S"} /\ TheGps[3] \in {"E", "W"}) =>
        /\ ret.exc = ""
        /\ Len(ret.metadata) = Len(args.file.exif) + 2
        /\ CountTag(ret.metadata, Name("GPSDecimal")) = 1
        /\ CountTag(ret.metadata, Name("GoogleMaps")) = 1
        /\ CountTag(ret.metadata, Name("GPSInfo")) = 1
        /\ \E i \in DOMAIN ret.metadata :
              /\ i + 2 \in DOMAIN ret.metadata
              /\ ret.metadata[i].tag = Name("GPSDecimal")
              /\ ret.metadata[i + 1].tag = Name("GoogleMaps")
              /\ ret.metadata[i + 2].tag = Name("GPSInfo")
        /\ ret.gps =
              [lat |-> convert_decimal_degrees(TheGps[2][1], TheGps[2][2], TheGps[2][3],
                                               TheGps[1]).n,
               lon |-> convert_decimal_degrees(TheGps[4][1], TheGps[4][2], TheGps[4][3],
                                               TheGps[3]).n]

\* C7: when the GPSInfo block is complete but one of its degree, minute or
\* second values is non-numeric, process_image treats the coordinate as
\* unavailable without aborting the image: no GPSDecimal and no GoogleMaps
\* record, gps = None, the raw GPSInfo record and one record for every other
\* tag, and no Error record.  Stated for a non-numeric string (no None among
\* the values) and for sanitize and risk_analysis both unset.
C7_BadGpsFieldIsNotFatal ==
    (/\ ImageReturned /\ ~args.sanitize /\ ~args.risk_analysis
     /\ HasCompleteGps /\ ~AllNumeric
     /\ \A i \in 1..3 : TheGps[2][i] # NoneV /\ TheGps[4][i] # NoneV) =>
        /\ ret.exc = ""
        /\ ret.gps = NoneV
        /\ TagsOf(ret.metadata) = [i \in DOMAIN args.file.exif |->
                                       TAGS_get(args.file.exif[i][1])]

\* C8: for every raw tag map of a decodable image, also one holding a tag
\* identifier the tag table cannot resolve, process_image with risk_analysis
\* set returns normally with one record per entry (an unresolvable tag under
\* its raw identifier) and a risk report.  Stated for maps without GPSInfo
\* and sanitize unset.
C8_RiskReportForEveryMap ==
    (/\ ImageReturned /\ ~args.sanitize /\ args.risk_analysis
     /\ GPSInfoId \notin Keys(args.file.exif)) =>
        /\ ret.exc = ""
        /\ TagsOf(ret.metadata) = [i \in DOMAIN args.file.exif |->
                                       TAGS_get(args.file.exif[i][1])]
        /\ ret.security_report # NoneV

(***************************************************************************)
(* process_directory                                                       *)
(***************************************************************************)
\* most files in the directory tree
MaxFiles == 2

\* d[k] = v on a dict: a key already present keeps its place
DictSet(m, k, v) ==
    IF k \in Keys(m) THEN [i \in DOMAIN m |-> IF m[i][1] = k THEN <<k, v>> ELSE m[i]]
    ELSE Append(m, <<k, v>>)

Path(p) == [path |-> p]

\* export_report returns the path of the file it wrote, None for a format
\* that is none of csv, json, txt
export_report(data, format) ==
    CASE format = "csv" -> Path("metadata_report.csv")
      [] format = "json" -> Path("metadata_report.json")
      [] format = "txt" -> Path("security_analysis.txt")
      [] OTHER -> NoneV

\* generate_map returns None for an empty coordinate map
generate_map(gps_data) ==
    IF gps_data = <<>> THEN NoneV ELSE Path("mapa_ubicaciones.html")

\* the tag maps of the directory's images: none, a Make, an unknown tag, a
\* valid GPS block with an Artist, a Make before a GPS block holding a
\* non-numeric string, a GPS block holding None
DirExifs ==
    LET gps(lat, lon) == Dict(GpsMap({1, 2, 3, 4}, "N", lat, "W", lon))
        ok == <<Num(10), Num(30), Num(0)>>
    IN  {<<>>,
         <<<<271, Scalar("a")>>>>,
         <<<<65000, Scalar("a")>>>>,
         <<<<GPSInfoId, gps(ok, ok)>>, <<315, Scalar("b")>>>>,
         <<<<271, Scalar("a")>>, <<GPSInfoId, gps(<<StrV, Num(0), Num(0)>>, ok)>>>>,
         <<<<GPSInfoId, gps(ok, <<Num(1), NoneV, Num(0)>>)>>>>}

DirFiles ==
    [name : {"a.jpg", "b.png"}, is_image : {TRUE}, decodable : {TRUE}, exif : DirExifs]
    \cup [name : {"a.jpg", "b.png"}, is_image : {TRUE}, decodable : {FALSE}, exif : {<<>>}]
    \cup [name : {"notes.txt"}, is_image : {FALSE}, decodable : {FALSE}, exif : {<<>>}]

InitDir ==
    /\ pc = "process_directory"
    /\ args \in [output_format : {"csv", "all"}]
    /\ ret = <<>>
    /\ files \in UNION {[1..n -> DirFiles] : n \in 0..MaxFiles}
    /\ path_exists \in BOOLEAN
    /\ sanitize \in BOOLEAN
    /\ risk_analysis \in BOOLEAN
    /\ idx = 0
    /\ all_metadata = <<>>
    /\ all_gps = <<>>
    /\ security_reports = <<>>
    /\ processed_count = 0
    /\ raised = ""

\* if not os.path.exists(path): return None, None, []
PathNotFound ==
    /\ pc = "process_directory"
    /\ ~path_exists
    /\ ret' = <<NoneV, NoneV, <<>>>>
    /\ pc' = "done"
    /\ UNCHANGED <<args, dirVars>>

\* a file whose name does not end in .jpg, .jpeg or .png is passed over
SkipFile ==
    /\ pc = "process_directory"
    /\ path_exists
    /\ idx < Len(files)
    /\ ~files[idx + 1].is_image
    /\ idx' = idx + 1
    /\ UNCHANGED <<pc, args, ret, files, path_exists, sanitize, risk_analysis,
                   all_metadata, all_gps, security_reports, processed_count, raised>>

\* the body of the loop after process_image returned: the accumulators
Accumulate(result) ==
    /\ all_metadata' = all_metadata \o result.metadata
    /\ all_gps' = IF result.gps # NoneV
                  THEN DictSet(all_gps, files[idx + 1].name, result.gps) ELSE all_gps
    /\ security_reports' = IF result.security_report # NoneV
                           THEN Append(security_reports, result.security_report)
                           ELSE security_reports
    /\ processed_count' = processed_count + 1

\* one image of the loop: process_image, then the accumulators; an exception
\* process_image lets through ends process_directory
ProcessFile ==
    /\ pc = "process_directory"
    /\ path_exists
    /\ idx < Len(files)
    /\ files[idx + 1].is_image
    /\ LET result == process_image(files[idx + 1], sanitize, risk_analysis)
       IN  IF result.exc # ""
           THEN /\ raised' = result.exc
                /\ pc' = "raised"
                /\ UNCHANGED <<files, idx, all_metadata, all_gps, security_reports,
                               processed_count>>
           ELSE /\ Accumulate(result)
                /\ idx' = idx + 1
                /\ files' = IF result.saved
                            THEN [files EXCEPT ![idx + 1].exif = sanitize_metadata(@)]
                            ELSE files
                /\ UNCHANGED <<pc, raised>>
    /\ UNCHANGED <<args, ret, path_exists, sanitize, risk_analysis>>

\* after the loop: the report, the map, the security reports, the return
Finish ==
    /\ pc = "process_directory"
    /\ path_exists
    /\ idx = Len(files)
    /\ ret' = <<IF all_metadata # <<>>
                THEN export_report(all_metadata, args.output_format) ELSE NoneV,
                IF all_gps # <<>> THEN generate_map(all_gps) ELSE NoneV,
                IF security_reports # <<>> THEN Path("security_analysis.json") ELSE NoneV,
                [count |-> processed_count]>>
    /\ pc' = "done"
    /\ UNCHANGED <<args, dirVars>>

Next ==
    \/ PathNotFound
    \/ SkipFile
    \/ ProcessFile
    \/ Finish

Spec == InitDir /\ [][Next]_vars

\* the loop is about to hand a file that cannot be opened to process_image
AtUndecodable ==
    /\ pc = "process_directory"
    /\ path_exists
    /\ idx < Len(files)
    /\ files[idx + 1].is_image
    /\ ~files[idx + 1].decodable

\* C9: a file that cannot be opened or decoded contributes exactly one record
\* (tag "Error") to the accumulated metadata, no entry to the coordinate map
\* and no risk report; it is counted in processed_count, and the loop goes on
\* to the next file from a state that differs in nothing else, so the files
\* after it are processed as if the failure had not happened.
C9_UndecodableFileIsLocal ==
    [][AtUndecodable =>
          /\ Len(all_metadata') = Len(all_metadata) + 1
          /\ SubSeq(all_metadata', 1, Len(all_metadata)) = all_metadata
          /\ all_metadata'[Len(all_metadata')].tag = Name("Error")
          /\ all_metadata'[Len(all_metadata')].filename = files[idx + 1].name
          /\ all_gps' = all_gps
          /\ security_reports' = security_reports
          /\ processed_count' = processed_count + 1
          /\ idx' = idx + 1
          /\ pc' = "process_directory"
          /\ raised' = ""
          /\ files' = files]_vars

C9_Witness ==
    /\ pc = "done"
    /\ path_exists
    /\ Len(files) = 2
    /\ ~files[1].decodable /\ files[1].is_image
    /\ files[2].decodable
    /\ Len(all_metadata) = 5
    /\ all_metadata[1].tag = Name("Error")
    /\ all_metadata[2].tag = Name("GPSDecimal")
    /\ Len(all_gps) = 1
    /\ all_gps[1][1] = files[2].name
    /\ processed_count = 2

====
